---- MODULE Spec2Model ----
(***************************************************************************)
(* Model of controlCreator.py: a library of NURBS-curve controls kept as   *)
(* <name>.json + <name>.png in save_folder, written by save_curve and      *)
(* save_icon, listed by CurveList.load_library, removed by                 *)
(* CurveList.deleteItem and instantiated by CurveList.createCurve.         *)
(*                                                                         *)
(* The host application (Maya) is modelled by the part of its state the    *)
(* code reads or writes: the selection, the type and shape child of every  *)
(* node, the geometry of every curve shape, the visibility of every        *)
(* transform and, for createCurve, the parent and local transform of every *)
(* transform.  Host calls that can raise (viewFit, playblast, os.remove    *)
(* ...) take their outcome as an input of the action.                      *)
(*                                                                         *)
(* Numbers: control points are floats in the code; the model keeps them    *)
(* exact, as rationals <<num, den>> in lowest terms.  Python tuples and    *)
(* lists, and str and unicode, are both modelled by sequences and strings: *)
(* json.dump writes either as the same JSON text.                          *)
(***************************************************************************)
EXTENDS Integers, Sequences, FiniteSets, TLC

VARIABLES
    save_folder,    \* the library directory: file -> content, or Absent
    items,          \* the CurveList widget's items (CurveItem: name, params)
    curveData,      \* geometry of every curve shape of the scene
    vis,            \* visibility of every transform of the scene
    internedKey,    \* whether curve.form().key is the interned "periodic"
    parent,         \* scene graph: transform -> parent transform, or World
    local,          \* scene graph: transform -> local transform
    created,        \* the curves createCurve has made, oldest first
    outcome,        \* how the last operation ended: "ok" or the error raised
    overwrote       \* history: the last save replaced a different entry

vars == <<save_folder, items, curveData, vis, internedKey,
          parent, local, created, outcome, overwrote>>

sceneVars == <<curveData, internedKey>>
xformVars == <<parent, local, created>>

-----------------------------------------------------------------------------
(* Bounds *)

\* Largest coordinate of a control point drawn at Init.
MaxCoord == 2
\* Curves createCurve may add to the scene.
MaxCreated == 2

-----------------------------------------------------------------------------
(* Values *)

None == "None"
\* The content of a file that does not exist (every content is a tuple).
Absent == <<>>

\* IMAGE_FILE_FORMAT['PNG']
PNG == 32

\* Names typed in the Name field (never empty: RequiredLineEdit disables Save).
Names == {"a", "b"}

\* The scene's transforms, and the shape child of each (getShape()).
Transforms == {"circle", "arrow", "cube", "grp"}
CurveShapes == {"circleShape", "arrowShape"}
MeshShapes == {"cubeShape"}
Nodes == Transforms \cup CurveShapes \cup MeshShapes

\* Python values handed to save_curve as its curve argument.
PyNone == [kind |-> "NoneType", v |-> None]
PyText(s) == [kind |-> "unicode", v |-> s]
PyNode(n) == [kind |-> "PyNode", v |-> n]

\* type(x): the exact class of a Python value.
TypeOf(x) ==
    IF x.kind # "PyNode" THEN x.kind
    ELSE IF x.v \in Transforms THEN "Transform"
    ELSE IF x.v \in CurveShapes THEN "NurbsCurve"
    ELSE "Mesh"

\* bool(x): None and the empty string are false, an existing node is true.
Truthy(x) ==
    IF x.kind = "NoneType" THEN FALSE
    ELSE IF x.kind = "unicode" THEN x.v # ""
    ELSE TRUE

\* Transform.getShape(): the shape child, or None.
getShape(t) ==
    IF t = "circle" THEN PyNode("circleShape")
    ELSE IF t = "arrow" THEN PyNode("arrowShape")
    ELSE IF t = "cube" THEN PyNode("cubeShape")
    ELSE PyNone

\* shape.listRelatives(parent=True)[0]: the transform above a shape.
listRelativesParent(s) ==
    IF s = "circleShape" THEN "circle"
    ELSE IF s = "arrowShape" THEN "arrow"
    ELSE "cube"

-----------------------------------------------------------------------------
(* Exact arithmetic on control points *)

Abs(x) == IF x < 0 THEN -x ELSE x

RECURSIVE GCD(_, _)
GCD(a, b) == IF b = 0 THEN a ELSE GCD(b, a % b)

\* The rational num/den (den > 0) in lowest terms.
Rat(num, den) ==
    LET g == GCD(Abs(num), den)
    IN  <<num \div g, den \div g>>

RatAdd(p, q) == Rat(p[1] * q[2] + q[1] * p[2], p[2] * q[2])
RatNeg(p) == <<-p[1], p[2]>>

RECURSIVE SumAxis(_, _)
SumAxis(cvs, k) ==
    IF cvs = <<>> THEN <<0, 1>>
    ELSE RatAdd(Head(cvs)[k], SumAxis(Tail(cvs), k))

\* (p.x, p.y, p.z) of a control point read from the curve: floats.
PointTuple(p) == <<<<p[1], 1>>, <<p[2], 1>>, <<p[3], 1>>>>

\* Center with the division by len(cvs) left out.
CenterUndivided(cvs) == [k \in 1..3 |-> SumAxis(cvs, k)]

\* center = [sum(p) / float(len(cvs)) for p in zip(*cvs)]
Center(cvs) ==
    [k \in 1..3 |-> LET s == SumAxis(cvs, k) IN Rat(s[1], s[2] * Len(cvs))]

\* map(lambda x: inverseCenter + x, cvs), as (point.x, point.y, point.z)
AddToAll(inverseCenter, cvs) ==
    [i \in 1..Len(cvs) |->
        [k \in 1..3 |-> RatAdd(inverseCenter[k], cvs[i][k])]]

\* inverseCenter = Vector(map(lambda x: x * -1, center)), added to every point
centerPivotCvs(cvs) ==
    LET center == Center(cvs)
    IN  AddToAll([k \in 1..3 |-> RatNeg(center[k])], cvs)

-----------------------------------------------------------------------------
(* The library directory *)

\* File names of save_folder: <<stem, extension>>.
Files == Names \X {"json", "png"}

jsonFile(name) == <<name, "json">>
pngFile(name) == <<name, "png">>

\* os.path.exists
Exists(folder, f) == folder[f] # Absent

\* os.listdir(save_folder)
listdir(folder) == {f \in Files : Exists(folder, f)}

\* periodic = True if curve.form().key is "periodic" else False.  `is` compares
\* object identity: a key that reads "periodic" is the literal's object only
\* when the host's enum key happens to be the interned string.
isPeriodicKey(form, interned) == form = "periodic" /\ interned

\* data = [name, {"degree": ..., "periodic": ..., "point": ..., "knot": ...}]
\* as read from curve shape d, with or without centering.
Data(name, d, centerPivot, interned) ==
    LET cvs == [i \in 1..Len(d.cvs) |-> PointTuple(d.cvs[i])]
    IN  <<name,
          [degree |-> d.degree,
           periodic |-> isPeriodicKey(d.form, interned),
           point |-> IF centerPivot THEN centerPivotCvs(cvs) ELSE cvs,
           knot |-> d.knots]>>

\* The picture playblast writes: the one object left visible, as it looks.
Playblast(object, shapeData, imageFormat) ==
    <<[of |-> object, looks |-> shapeData, format |-> imageFormat]>>

\* Steps of save_icon that call the host and may raise.
IconSteps == {"showHidden", "viewFit", "setAttr", "playblast"}

\* pm.hide(allObjects=True, returnHidden=True): the objects it hid.
hideAll(v) == {t \in Transforms : v[t]}

\* save_icon with playblast's forceOverwrite left out: a thumbnail that exists
\* is kept.
save_iconKeepExisting(object, filename, imageFormat, folder, v, shapeData, fail) ==
    [outcome |-> IF fail = "none" THEN "ok" ELSE "HostError",
     folder |-> IF fail = "none" /\ ~Exists(folder, pngFile(filename))
                THEN [folder EXCEPT ![pngFile(filename)] =
                         Playblast(object, shapeData, imageFormat)]
                ELSE folder,
     vis |-> IF fail = "none"
             THEN [t \in Transforms |-> v[t] \/ t = object]
             ELSE [t \in Transforms |-> fail # "showHidden" /\ t = object]]

\* save_icon(object, filename, imageFormat), raising at step `fail` (or at none):
\* the folder and the visibility it leaves.
save_icon(object, filename, imageFormat, folder, v, shapeData, fail) ==
    LET hidden == hideAll(v)
        allHidden == [t \in Transforms |-> FALSE]
        shown == [allHidden EXCEPT ![object] = TRUE]
    IN  IF fail = "showHidden"
        THEN [outcome |-> "HostError", folder |-> folder, vis |-> allHidden]
        ELSE IF fail \in {"viewFit", "setAttr", "playblast"}
        THEN [outcome |-> "HostError", folder |-> folder, vis |-> shown]
        ELSE [outcome |-> "ok",
              folder |-> [folder EXCEPT ![pngFile(filename)] =
                             Playblast(object, shapeData, imageFormat)],
              vis |-> [t \in Transforms |-> shown[t] \/ t \in hidden]]

\* load_curve(file_name): the record read back, or IOError.
load_curve(folder, f) ==
    IF ~Exists(folder, f) THEN <<"IOError">> ELSE folder[f]

\* CurveItem(data[0], data[1], QIcon(iconPath), None)
CurveItem(data) == [name |-> data[1], params |-> data[2]]

\* CurveList.load_library(): the items the widget holds after clear() and one
\* addItem per *.json file of the folder.
load_library(folder) ==
    LET library == {f \in listdir(folder) : f[2] = "json"}
    IN  {CurveItem(load_curve(folder, f)) : f \in library}

-----------------------------------------------------------------------------
(* save_curve *)

\* The object save_curve reads: the argument, else pm.selected()[0]; when the
\* selection is empty the IndexError is printed and curve stays as it was.
ResolveCurve(curve, sel) ==
    IF Truthy(curve) THEN curve
    ELSE IF sel # <<>> THEN PyNode(sel[1])
    ELSE curve

\* if type(curve) is Transform: curve = curve.getShape()
ResolveShape(c) ==
    IF TypeOf(c) = "Transform" THEN getShape(c.v) ELSE c

\* raise TypeError("{} is not ...".format(curve.name(), ...)): evaluating
\* curve.name() raises AttributeError on None and on a string.
TypeCheckError(c) ==
    IF TypeOf(c) = "NurbsCurve" THEN "ok"
    ELSE IF c.kind = "PyNode" THEN "TypeError"
    ELSE "AttributeError"

\* save_curve(name, curve, centerPivot) with save_icon raising at `fail`:
\* its outcome, the folder and the visibility it leaves, and the shape read.
save_curve(name, curve, centerPivot, folder, v, sel, cd, interned, fail) ==
    LET c == ResolveShape(ResolveCurve(curve, sel))
        err == TypeCheckError(c)
    IN  IF err # "ok"
        THEN [outcome |-> err, folder |-> folder, vis |-> v, shape |-> None]
        ELSE LET written == [folder EXCEPT ![jsonFile(name)] =
                                Data(name, cd[c.v], centerPivot, interned)]
                 icon == save_icon(listRelativesParent(c.v), name, PNG,
                                   written, v, cd[c.v], fail)
             IN  [outcome |-> icon.outcome, folder |-> icon.folder,
                  vis |-> icon.vis, shape |-> c.v]

-----------------------------------------------------------------------------
(* Transforms of the scene graph: a rotation by r quarter turns, then a     *)
(* translation t.                                                           *)

World == "World"
Identity == [r |-> 0, t |-> <<0, 0>>]

Rot(r, p) ==
    IF r = 0 THEN p
    ELSE IF r = 1 THEN <<-p[2], p[1]>>
    ELSE IF r = 2 THEN <<-p[1], -p[2]>>
    ELSE <<p[2], -p[1]>>

\* The transform of a child with local transform b under a parent at a.
Compose(a, b) ==
    LET q == Rot(a.r, b.t)
    IN  [r |-> (a.r + b.r) % 4, t |-> <<a.t[1] + q[1], a.t[2] + q[2]>>]

Inverse(a) ==
    LET r == (4 - a.r) % 4
    IN  [r |-> r, t |-> Rot(r, <<-a.t[1], -a.t[2]>>)]

\* The world transform of scene transform n.
RECURSIVE WorldOf(_, _, _)
WorldOf(par, loc, n) ==
    IF par[n] = World THEN loc[n]
    ELSE Compose(WorldOf(par, loc, par[n]), loc[n])

\* xformQuery with ws left out: the query is made in object space.
xformQueryObjectSpace(par, loc, n) == loc[n]

\* pm.xform(selected, q=True, ws=True, t=True) and (..., ro=True)
xformQuery(par, loc, n) == WorldOf(par, loc, n)

\* pm.xform(curve, ws=True, translation=t, rotation=ro) on a node whose parent
\* is at world transform pw: the local transform it is left with.
xformSet(pw, t, ro) == Compose(Inverse(pw), [r |-> ro, t |-> t])

\* pm.parent(child, newParent): the child keeps its world transform cw under a
\* parent at world transform pw.
parentAbsolute(pw, cw) == Compose(Inverse(pw), cw)

\* One curve of createCurve: pm.curve(**item.params), matched to `selected`,
\* renamed, and put under an offset group when the option is checked.
matchedCurve(item, selected, offset, par, loc) ==
    LET target == xformQuery(par, loc, selected)
        curveLocal == xformSet(Identity, target.t, target.r)
        \* pm.group(empty=True); pm.parent(offset_grp, selected, relative=True):
        \* the group's local transform stays the identity under `selected`
        grpUnderTarget == Compose(WorldOf(par, loc, selected), Identity)
        \* pm.parent(offset_grp, world=True): it keeps its world transform
        grpWorld == parentAbsolute(Identity, grpUnderTarget)
    IN  IF offset
        THEN [params |-> item.params, name |-> <<selected, "_CTRL">>,
              parent |-> "offset_grp", grp |-> <<grpWorld>>,
              local |-> parentAbsolute(grpWorld, curveLocal)]
        ELSE [params |-> item.params, name |-> <<selected, "_CTRL">>,
              parent |-> World, grp |-> <<>>, local |-> curveLocal]

\* pm.curve(**item.params) with nothing selected.
plainCurve(item) ==
    [params |-> item.params, name |-> <<"curve">>, parent |-> World,
     grp |-> <<>>, local |-> Identity]

\* The world transform of a created curve.
CreatedWorld(c) ==
    IF c.parent = World THEN c.local ELSE Compose(c.grp[1], c.local)

-----------------------------------------------------------------------------
(* Initial states *)

\* Knot vector of a curve of the given degree over n control points.
Knots(degree, n) == [i \in 1..(n + degree - 1) |-> i - 1]

Curve(degree, form, cvs) ==
    [degree |-> degree, form |-> form, cvs |-> cvs,
     knots |-> Knots(degree, Len(cvs))]

\* Control-point lists the circle may have.
CvLists ==
    {<<<<0, 0, 0>>, <<x, 1, 0>>>> : x \in 1..MaxCoord}
    \cup {<<<<1, 2, 3>>, <<3, 2, 1>>, <<2, 2, 2>>>>}

\* The arrow: an open linear curve through (0,0,0), (2,0,0), (4,0,0).
ArrowCurve == Curve(1, "open", <<<<0, 0, 0>>, <<2, 0, 0>>, <<4, 0, 0>>>>)

\* The circle as the library specification starts with it.
CircleCurve == Curve(1, "periodic", <<<<0, 0, 0>>, <<1, 1, 0>>>>)

InitFlat ==
    /\ parent = [t \in Transforms |-> World]
    /\ local = [t \in Transforms |-> Identity]
    /\ created = <<>>

\* The module is imported (save_folder made if missing) and getUI() has shown
\* the window over an empty library.
InitLibrary ==
    /\ save_folder = [f \in Files |-> Absent]
    /\ items = load_library(save_folder)
    /\ outcome = "ok"
    /\ overwrote = FALSE

\* A scene whose arrow and group are hidden.
Init ==
    /\ InitLibrary
    /\ curveData = [s \in CurveShapes |->
                        IF s = "circleShape" THEN CircleCurve ELSE ArrowCurve]
    /\ internedKey = FALSE
    /\ vis = [t \in Transforms |-> t \in {"circle", "cube"}]
    /\ InitFlat

\* Scenes whose circle has any of the bounded geometries, open or periodic,
\* under either identity of the enum key.
InitData ==
    /\ InitLibrary
    /\ \E form \in {"open", "periodic"}, cvs \in CvLists :
          curveData = [s \in CurveShapes |->
                          IF s = "circleShape" THEN Curve(1, form, cvs)
                          ELSE ArrowCurve]
    /\ internedKey \in BOOLEAN
    /\ vis = [t \in Transforms |-> TRUE]
    /\ InitFlat

\* Local transforms a transform of the scene may start with.
XfChoices == {Identity, [r |-> 1, t |-> <<1, 2>>]}

\* A session over a library left by an earlier one (the arrow saved as "a"),
\* in a scene where circle is under cube and cube under grp.
InitCreate ==
    /\ save_folder = [f \in Files |->
                          IF f = jsonFile("a") THEN Data("a", ArrowCurve, FALSE, FALSE)
                          ELSE IF f = pngFile("a") THEN Playblast("arrow", ArrowCurve, PNG)
                          ELSE Absent]
    /\ items = load_library(save_folder)
    /\ outcome = "ok"
    /\ overwrote = FALSE
    /\ curveData = [s \in CurveShapes |->
                        IF s = "circleShape" THEN CircleCurve ELSE ArrowCurve]
    /\ internedKey = FALSE
    /\ vis = [t \in Transforms |-> TRUE]
    /\ parent = [t \in Transforms |->
                     IF t = "circle" THEN "cube"
                     ELSE IF t = "cube" THEN "grp"
                     ELSE World]
    /\ local \in [Transforms -> XfChoices]
    /\ created = <<>>

-----------------------------------------------------------------------------
(* Operations *)

\* A save that returned replaced an entry (record and thumbnail) that differed
\* from it.
Replaced(before, after, name, result) ==
    /\ result = "ok"
    /\ Exists(before, jsonFile(name))
    /\ Exists(before, pngFile(name))
    /\ before[jsonFile(name)] # after[jsonFile(name)]

\* A script calls save_curve(name, curve, centerPivot).
SaveCurve(name, curve, centerPivot, sel, fail) ==
    LET r == save_curve(name, curve, centerPivot, save_folder, vis, sel,
                        curveData, internedKey, fail)
    IN  /\ fail # "none" => r.shape # None
        /\ save_folder' = r.folder
        /\ vis' = r.vis
        /\ outcome' = r.outcome
        /\ overwrote' = Replaced(save_folder, save_folder', name, outcome')
        /\ UNCHANGED <<items, sceneVars, xformVars>>

\* Window.save(): the Save button.  load_library runs only when save_curve
\* returned.
save(name, text, centerPivot, sel, fail) ==
    LET r == save_curve(name, PyText(text), centerPivot, save_folder, vis,
                        sel, curveData, internedKey, fail)
    IN  /\ fail # "none" => r.shape # None
        /\ save_folder' = r.folder
        /\ vis' = r.vis
        /\ outcome' = r.outcome
        /\ items' = IF outcome' = "ok" THEN load_library(save_folder') ELSE items
        /\ overwrote' = Replaced(save_folder, save_folder', name, outcome')
        /\ UNCHANGED <<sceneVars, xformVars>>

\* os.remove(f): raises OSError when f is missing or the host refuses.
removeFails(folder, f, refused) == ~Exists(folder, f) \/ refused

\* CurveList.deleteItem() over the widget's selected items (the widget is in
\* Qt's default single-selection mode: none or one), os.remove being refused
\* at `refused` ("json", "png" or "none").
deleteItem(sel, refused) ==
    IF sel = {} THEN
        /\ refused = "none"
        /\ items' = load_library(save_folder)
        /\ outcome' = "ok"
        /\ overwrote' = FALSE
        /\ UNCHANGED <<save_folder, vis, sceneVars, xformVars>>
    ELSE
        LET item == CHOOSE i \in sel : TRUE
            data_file == jsonFile(item.name)
            icon_file == pngFile(item.name)
            f1 == [save_folder EXCEPT ![data_file] = Absent]
        IN  /\ overwrote' = FALSE
            /\ UNCHANGED <<vis, sceneVars, xformVars>>
            /\ IF removeFails(save_folder, data_file, refused = "json") THEN
                    /\ outcome' = "OSError"
                    /\ UNCHANGED <<save_folder, items>>
                ELSE IF removeFails(f1, icon_file, refused = "png") THEN
                    /\ save_folder' = f1
                    /\ outcome' = "OSError"
                    /\ UNCHANGED items
                ELSE
                    /\ save_folder' = [f1 EXCEPT ![icon_file] = Absent]
                    /\ items' = load_library(save_folder')
                    /\ outcome' = "ok"

\* getUI(): a new Window, whose constructor loads the library.
getUI ==
    /\ items' = load_library(save_folder)
    /\ outcome' = "ok"
    /\ overwrote' = FALSE
    /\ UNCHANGED <<save_folder, vis, sceneVars, xformVars>>

\* CurveList.createCurve(item): a click on a library entry, with the host
\* selection sel and the offset option as checked.
RECURSIVE curvesFor(_, _, _, _, _)
curvesFor(item, sel, offset, par, loc) ==
    IF sel = <<>> THEN <<>>
    ELSE <<matchedCurve(item, Head(sel), offset, par, loc)>>
         \o curvesFor(item, Tail(sel), offset, par, loc)

createCurve(item, sel, offset) ==
    LET new == IF sel # <<>> THEN curvesFor(item, sel, offset, parent, local)
               ELSE <<plainCurve(item)>>
    IN  /\ Len(created) + Len(new) <= MaxCreated
        /\ created' = created \o new
        /\ outcome' = "ok"
        /\ overwrote' = FALSE
        /\ UNCHANGED <<save_folder, items, vis, sceneVars, parent, local>>

Fails == IconSteps \cup {"none"}
Refusals == {"none", "json", "png"}
SelectedItems == {{}} \cup {{i} : i \in items}

\* What a script passes as curve, with the host selection at that moment (the
\* selection is read only when no curve is passed).
ScriptSources ==
    {<<PyNode(n), <<>>>> : n \in Nodes}
    \cup {<<PyNone, sel>> : sel \in {<<>>, <<"arrow">>}}

\* The text of the window's Curve field, with the host selection.
WindowSources ==
    {<<"circle", <<>>>>}
    \cup {<<"", sel>> : sel \in {<<>>, <<"circle">>, <<"cube">>}}

\* The library specification works through the window: the Curve field left
\* empty or filled in, over a selection of none or one of the curves.
LibWindowSources ==
    {<<"circle", <<>>>>} \cup {<<"", sel>> : sel \in {<<>>, <<"circle">>, <<"arrow">>}}

\* The library as the window drives it: saves with the "From Center Pivot" box
\* as the window starts it (unchecked), deletes, and reopening the window.
Next ==
    \/ \E name \in Names, src \in LibWindowSources, fail \in Fails :
          save(name, src[1], FALSE, src[2], fail)
    \/ \E sel \in SelectedItems, refused \in Refusals :
          deleteItem(sel, refused)
    \/ getUI

Spec == Init /\ [][Next]_vars

\* What save_curve stores: every kind of source, with and without centering,
\* under one name, the host raising nowhere.
NextData ==
    \/ \E src \in ScriptSources, centerPivot \in BOOLEAN :
          SaveCurve("a", src[1], centerPivot, src[2], "none")
    \/ \E src \in WindowSources, centerPivot \in BOOLEAN :
          save("a", src[1], centerPivot, src[2], "none")

SpecData == InitData /\ [][NextData]_vars

\* Host selections when a library entry is clicked: up to two transforms.
CreateSelections ==
    {<<>>} \cup {<<t>> : t \in Transforms}
    \cup {p \in Transforms \X Transforms : p[1] # p[2]}

\* Clicks on the entries of the list.
NextCreate ==
    \E item \in items, sel \in CreateSelections, offset \in BOOLEAN :
        createCurve(item, sel, offset)

SpecCreate == InitCreate /\ [][NextCreate]_vars

-----------------------------------------------------------------------------
(* Claims *)

\* The curve shape a save reads, when it reads one: the argument or the first
\* selected object, a transform replaced by its shape child.
SourceOf(curve, sel) == ResolveShape(ResolveCurve(curve, sel))
ReadsCurve(curve, sel) == TypeOf(SourceOf(curve, sel)) = "NurbsCurve"

\* The description (degree, periodic, points, knots) of a live curve.
Description(d) ==
    [degree |-> d.degree,
     periodic |-> (d.form = "periodic"),
     point |-> [i \in 1..Len(d.cvs) |-> PointTuple(d.cvs[i])],
     knot |-> d.knots]

\* A step of save_curve, called by a script or by the window's Save button.
SaveStep(name, curve, centerPivot, sel, fail) ==
    \/ SaveCurve(name, curve, centerPivot, sel, fail)
    \/ curve.kind = "unicode" /\ save(name, curve.v, centerPivot, sel, fail)

AllSources ==
    ScriptSources \cup {<<PyText(src[1]), src[2]>> : src \in WindowSources}

\* C1: saving a curve under a name and reading the record back with
\* load_curve yields the name and a description equal to the curve's, field
\* for field.
C1_RoundTrip ==
    [][\A src \in AllSources, centerPivot \in BOOLEAN :
          (/\ SaveStep("a", src[1], centerPivot, src[2], "none")
           /\ outcome' = "ok")
          => load_curve(save_folder', jsonFile("a"))
               = <<"a", Description(curveData[SourceOf(src[1], src[2]).v])>>]_vars

\* C2: in every reachable state a name has a record file if and only if it has
\* a thumbnail file.
C2_RecordIffThumbnail ==
    \A name \in Names :
        Exists(save_folder, jsonFile(name)) <=> Exists(save_folder, pngFile(name))

\* What a save through the window that returned leaves: the record and the
\* thumbnail of the curve it read under the name, every other file as it was,
\* and one list item for the name, showing the new record.
C3_Step(name, text, sel) ==
    LET shape == SourceOf(PyText(text), sel).v
        mine == {i \in items' : i.name = name}
    IN  /\ save_folder'[jsonFile(name)] = Data(name, curveData[shape], FALSE, internedKey)
        /\ save_folder'[pngFile(name)]
             = Playblast(listRelativesParent(shape), curveData[shape], PNG)
        /\ \A f \in Files \ {jsonFile(name), pngFile(name)} :
              save_folder'[f] = save_folder[f]
        /\ Cardinality(mine) = 1
        /\ \A i \in mine : i.params = save_folder'[jsonFile(name)][2]
        /\ \A i \in items' \ mine : <<i.name, i.params>> = save_folder[jsonFile(i.name)]

\* C3: after two successive saves under the same name with different curve
\* data the library holds exactly one entry for that name, whose record and
\* thumbnail are those of the second save, and no other entry is changed
\* (stated of every save that returns, whatever the name held before).
C3_Overwrite ==
    [][\A name \in Names, src \in LibWindowSources, fail \in Fails :
          (/\ save(name, src[1], FALSE, src[2], fail)
           /\ outcome' = "ok")
          => C3_Step(name, src[1], src[2])]_vars

\* A second save under "a" has replaced a different record and thumbnail, with
\* an entry "b" beside it.
C3_Witness ==
    /\ overwrote
    /\ outcome = "ok"
    /\ Exists(save_folder, jsonFile("a"))
    /\ Exists(save_folder, pngFile("a"))
    /\ save_folder[jsonFile("a")] = Data("a", ArrowCurve, FALSE, FALSE)
    /\ save_folder[pngFile("a")] = Playblast("arrow", ArrowCurve, PNG)
    /\ Exists(save_folder, jsonFile("b"))
    /\ Exists(save_folder, pngFile("b"))

\* C4: after deleteItem has run for a selected item, neither the record file
\* nor the thumbnail file of its name remains.
C4_DeleteComplete ==
    [][\A sel \in SelectedItems \ {{}} :
          deleteItem(sel, "none")
          => \A i \in sel : /\ ~Exists(save_folder', jsonFile(i.name))
                            /\ ~Exists(save_folder', pngFile(i.name))]_vars

\* C5: on every exit path of save_icon, every scene object is as visible as
\* it was before the call.
C5_VisibilityRestored ==
    [][\A name \in Names, src \in LibWindowSources, fail \in Fails :
          (/\ save(name, src[1], FALSE, src[2], fail)
           /\ ReadsCurve(PyText(src[1]), src[2]))
          => vis' = vis]_vars

\* The error pm.selected()[0] raises over an empty selection.
NoSelectionError == "IndexError"

\* C6: save_curve with no source object and an empty selection fails with the
\* no-selection error, which no save of a given source ends with.
C6_NoSelection ==
    [][\A src \in {<<PyNone, <<>>>>, <<PyText(""), <<>>>>}, centerPivot \in BOOLEAN :
          SaveStep("a", src[1], centerPivot, src[2], "none")
          => outcome' = NoSelectionError]_vars

\* C7: whenever the source given resolves to something that is not a curve, the
\* save fails with the wrong-type error and the library is left unchanged.
C7_WrongType ==
    [][\A src \in AllSources, centerPivot \in BOOLEAN :
          (/\ SaveStep("a", src[1], centerPivot, src[2], "none")
           /\ Truthy(src[1])
           /\ ~ReadsCurve(src[1], src[2]))
          => outcome' = "TypeError" /\ save_folder' = save_folder]_vars

RECURSIVE IntSum(_, _)
IntSum(cvs, k) == IF cvs = <<>> THEN 0 ELSE Head(cvs)[k] + IntSum(Tail(cvs), k)

\* The rational q equals the integer fraction num/den.
RatIs(q, num, den) == q[2] > 0 /\ q[1] * den = num * q[2]

\* The stored points of a curve with control points cvs.
C8_Step(cvs, stored, centerPivot) ==
    LET n == Len(cvs)
    IN  /\ Len(stored) = n
        /\ \A i \in 1..n, k \in 1..3 :
              IF centerPivot
              THEN RatIs(stored[i][k], n * cvs[i][k] - IntSum(cvs, k), n)
              ELSE RatIs(stored[i][k], cvs[i][k], 1)
        /\ centerPivot => \A k \in 1..3 : SumAxis(stored, k)[1] = 0
        /\ curveData' = curveData

\* C8: with centering, stored point i is original point i minus the mean of all
\* n points, componentwise, in the same order (so each axis sums to zero);
\* without, the stored points are the originals; the live curve is unchanged.
C8_Centering ==
    [][\A src \in AllSources, centerPivot \in BOOLEAN :
          (/\ SaveStep("a", src[1], centerPivot, src[2], "none")
           /\ ReadsCurve(src[1], src[2]))
          => C8_Step(curveData[SourceOf(src[1], src[2]).v].cvs,
                     save_folder'[jsonFile("a")][2].point, centerPivot)]_vars

\* The arrow (0,0,0), (2,0,0), (4,0,0) stored as (-2,0,0), (0,0,0), (2,0,0).
C8_Witness ==
    /\ Exists(save_folder, jsonFile("a"))
    /\ curveData["arrowShape"].cvs = <<<<0, 0, 0>>, <<2, 0, 0>>, <<4, 0, 0>>>>
    /\ save_folder[jsonFile("a")][2].point
         = <<<<<<-2, 1>>, <<0, 1>>, <<0, 1>>>>,
             <<<<0, 1>>, <<0, 1>>, <<0, 1>>>>,
             <<<<2, 1>>, <<0, 1>>, <<0, 1>>>>>>

\* C10: after every save and every delete issued through the window, the names
\* the list shows are the names of the record files of the library.
ListedNames(its) == {i.name : i \in its}
RecordNames(folder) == {name \in Names : Exists(folder, jsonFile(name))}

C10_ListMatchesLibrary ==
    [][(\/ \E name \in Names, src \in LibWindowSources, fail \in Fails :
             save(name, src[1], FALSE, src[2], fail)
        \/ \E sel \in SelectedItems, refused \in Refusals : deleteItem(sel, refused))
       => ListedNames(items') = RecordNames(save_folder')]_vars

\* What one click on a library entry adds to the scene.
C9_Step(item, sel, offset) ==
    LET n == Len(created)
    IN  /\ Len(created') = n + (IF sel = <<>> THEN 1 ELSE Len(sel))
        /\ \A i \in 1..n : created'[i] = created[i]
        /\ sel = <<>> =>
              /\ CreatedWorld(created'[n + 1]) = Identity
              /\ created'[n + 1].params = item.params
        /\ \A i \in 1..Len(sel) :
              LET c == created'[n + i]
                  target == WorldOf(parent, local, sel[i])
              IN  /\ CreatedWorld(c) = target
                  /\ c.params = item.params
                  /\ offset => (c.parent = "offset_grp" /\ c.grp = <<target>>)
                  /\ ~offset => (c.parent = World)

\* C9: a click on a library entry with k >= 1 objects selected creates exactly
\* one new curve per selected target, each at its target's world translation
\* and rotation whatever the target's parents and whether or not the offset
\* option is checked (with it, the curve is under an offset group that is
\* in world space at the target's world transform); with nothing selected
\* exactly one curve is created, at the origin.
C9_Instantiate ==
    [][\A item \in items, sel \in CreateSelections, offset \in BOOLEAN :
          createCurve(item, sel, offset) => C9_Step(item, sel, offset)]_vars

\* Two curves made in one click under offset groups, the second on a target
\* below rotated and translated parents.
C9_Witness ==
    /\ Len(created) = 2
    /\ created[2].parent = "offset_grp"
    /\ created[2].name = <<"circle", "_CTRL">>
    /\ created[1].name = <<"cube", "_CTRL">>
    /\ local["grp"] # Identity
    /\ local["cube"] # Identity
    /\ WorldOf(parent, local, "circle") # local["circle"]
    /\ CreatedWorld(created[2]) = WorldOf(parent, local, "circle")
====
